---- MODULE Spec2Model ----
(***************************************************************************)
(* Model of gblearn/lammps.py: the LAMMPS dump-file reader and writer.     *)
(*                                                                         *)
(* A file is a sequence of lines.  A line is a record                      *)
(*   [k, hd, nums, xv]                                                     *)
(* k    : "TIMESTEP", "NATOMS", "BOX", "ATOMS" for the four "ITEM: ..."    *)
(*        header lines, "data" for every other line;                       *)
(* hd   : the whitespace separated words that follow the header keyword;   *)
(* nums : the leading numeric tokens of a data line (the index, the atom   *)
(*        count, a lo/hi pair, or id type x y z);                          *)
(* xv   : the tokens of an atom line after the fifth, each [f, v] with f   *)
(*        TRUE for a literal that eval() reads as a float.                 *)
(* Floats are integers counting units of 10^-6.  The stream cursor is the  *)
(* number of lines before it: the code only ever seeks to line starts.     *)
(***************************************************************************)
EXTENDS Integers, Sequences, FiniteSets, TLC

\* ------------------------------------------------------------------ bounds
MaxRecs == 3
MaxIndex == 2
MaxAtoms == 2

\* ----------------------------------------------------------------- helpers
NoneV == -1

Line(k, hd, nums, xv) == [k |-> k, hd |-> hd, nums |-> nums, xv |-> xv]
DataLine(nums) == Line("data", <<>>, nums, <<>>)
IsHeader(l) == l.k # "data"

Key(n) == <<"", n>>
AtomKey(n) == <<"atom:", n>>

InSeq(x, s) == \E i \in 1..Len(s) : s[i] = x

Take(s, n) == SubSeq(s, 1, IF n < Len(s) THEN n ELSE Len(s))

\* --------------------------------------------------------- the input files
\* One atom line of record idx: ids count from 1, positions differ per atom
\* and per record, extra values alternate int and float literals.
AtomLine(idx, i, nx) ==
  Line("data", <<>>,
       <<i, 1 + (idx % 2), 500000 * i, 1500000 + idx, 0 - 2500000>>,
       [j \in 1..nx |-> IF j = 1 THEN [f |-> TRUE, v |-> 30976000 + i]
                                 ELSE [f |-> FALSE, v |-> 4 + i]])

\* A record's text.  sh describes its shape:
\*   n     atom lines present           decl  the declared NUMBER OF ATOMS
\*   miss  the section left out ("none", "natoms", "box", "atoms")
\*   per   the words after BOX BOUNDS   heads the names after id type x y z
\*   nx    the number of extra tokens on each atom line
\*   short the atom line that lacks its last extra token (0 for none)
RecLines(idx, sh) ==
  <<Line("TIMESTEP", <<>>, <<>>, <<>>), DataLine(<<idx>>)>>
  \o (IF sh.miss = "natoms" THEN <<>>
      ELSE <<Line("NATOMS", <<>>, <<>>, <<>>), DataLine(<<sh.decl>>)>>)
  \o (IF sh.miss = "box" THEN <<>>
      ELSE <<Line("BOX", sh.per, <<>>, <<>>),
             DataLine(<<0, 1000000 + idx>>), DataLine(<<0, 2000000>>),
             DataLine(<<0 - 3000000, 3000000>>)>>)
  \o (IF sh.miss = "atoms" THEN <<>>
      ELSE <<Line("ATOMS", <<"id", "type", "x", "y", "z">> \o sh.heads,
                  <<>>, <<>>)>>
           \o [i \in 1..sh.n |->
                 AtomLine(idx, i, IF i = sh.short THEN sh.nx - 1 ELSE sh.nx)])

Shape(n, decl, miss, per, heads, nx) ==
  [n |-> n, decl |-> decl, miss |-> miss, per |-> per, heads |-> heads,
   nx |-> nx, short |-> 0]

ShortLine(sh, i) == [sh EXCEPT !.short = i]

PP == <<"pp", "pp", "ss">>

\* Complete records with 0..MaxAtoms atom lines.
CompleteShapes == { Shape(n, n, "none", PP, <<>>, 0) : n \in 0..MaxAtoms }

\* The variations: a section left out, extra columns, a declared count that
\* differs from the atom lines present, an atom line with fewer extra tokens
\* than the ATOMS header has names, a name that the header repeats.
VariantShapes ==
  { Shape(1, 1, m, <<>>, <<"c_csd">>, 1) : m \in {"natoms", "box", "atoms"} }
  \cup { Shape(2, 2, "none", <<>>, <<"c_csd", "q">>, 2),
         Shape(1, 2, "none", PP, <<>>, 0),
         ShortLine(Shape(2, 2, "none", <<>>, <<"c_csd", "q">>, 2), 1),
         Shape(1, 1, "none", <<"ss", "fs", "pp">>, <<"q", "q">>, 2) }

Shapes == CompleteShapes \cup VariantShapes

RECURSIVE Concat(_)
Concat(ss) == IF ss = <<>> THEN <<>> ELSE Head(ss) \o Concat(Tail(ss))

\* Strictly increasing index sequences of length n over 0..MaxIndex.
IndexSeqs(n) ==
  { s \in [1..n -> 0..MaxIndex] : \A i \in 1..(n - 1) : s[i] < s[i + 1] }

\* Files of 1..MaxRecs records, at most one of them a variation.
ShapeSeqs(n) ==
  { sh \in [1..n -> Shapes] :
      Cardinality({ i \in 1..n : sh[i] \in VariantShapes }) <= 1 }

Files ==
  UNION { { Concat([i \in 1..n |-> RecLines(ix[i], sh[i])]) :
              ix \in IndexSeqs(n), sh \in ShapeSeqs(n) } :
          n \in 1..MaxRecs }

\* ------------------------------------------------------- the result dict
\* A Python dict: keys in insertion order, val the value of each key (always
\* kept as a sequence), scalar the keys whose value is not a list.
EmptyDict == [keys |-> <<>>, val |-> <<>>, scalar |-> {}]

Has(d, k) == InSeq(k, d.keys)

Put(d, k, v, isScalar) ==
  [keys |-> IF Has(d, k) THEN d.keys ELSE Append(d.keys, k),
   val |-> (k :> v) @@ d.val,
   scalar |-> IF isScalar THEN d.scalar \cup {k} ELSE d.scalar \ {k}]

ListAppend(d, k, v) == [d EXCEPT !.val = (k :> Append(d.val[k], v)) @@ d.val]

\* ------------------------------------------------------------- _read
\* Lines 286-301: what the TIMESTEP value does to self.index and the skip
\* flags.  filt is [has, s]: the stepfilter, has FALSE for None.
AbortOnLarger_NoAbort(shared) == FALSE

\* Line 291: a value past the target ends the call at once only on a stream
\* that _read opened itself.
AbortOnLarger(shared) == ~shared

TimePolicy(index, values, shared, filt, timeskip, laststep) ==
  LET same == [index |-> index, timeskip |-> timeskip,
               laststep |-> laststep, abort |-> FALSE]
  IN IF filt.has /\ values \notin filt.s
       THEN [same EXCEPT !.timeskip = TRUE]
     ELSE IF index # NoneV /\ values # index
       THEN IF values > index
              THEN IF AbortOnLarger(shared)
                     THEN [same EXCEPT !.abort = TRUE]
                     ELSE [same EXCEPT !.timeskip = TRUE, !.laststep = TRUE]
              ELSE [same EXCEPT !.timeskip = TRUE]
     ELSE IF index = NoneV
       THEN [same EXCEPT !.index = values]
     ELSE [same EXCEPT !.timeskip = FALSE]

\* Lines 303-308: result[current] = values, or append to it.  Appending to
\* a value that is not a list raises AttributeError.
Store(result, current, values, isScalar, stackEmpty) ==
  LET k == Key(current)
  IN IF stackEmpty /\ ~Has(result, k)
       THEN [exc |-> "none",
             result |-> Put(result, k, IF isScalar THEN <<values>> ELSE values,
                            isScalar)]
     ELSE IF ~Has(result, k)
       THEN [exc |-> "none", result |-> Put(result, k, <<values>>, FALSE)]
     ELSE IF k \in result.scalar
       THEN [exc |-> "AttributeError", result |-> result]
     ELSE [exc |-> "none", result |-> ListAppend(result, k, values)]

\* Lines 324-326: the tokens after the fifth go, by position, to the extra
\* columns; eval() keeps each literal's kind.  A token with no column
\* (xkeys[ikey] out of range) raises IndexError.
RECURSIVE AppendExtras(_, _, _, _)
AppendExtras(result, ks, xv, i) ==
  IF i > Len(xv) THEN [exc |-> "none", result |-> result]
  ELSE IF i > Len(ks) THEN [exc |-> "IndexError", result |-> result]
  ELSE AppendExtras(ListAppend(result, ks[i], xv[i]), ks, xv, i + 1)

\* Lines 318-326: one atom line.
AtomRow(result, xkeys, line) ==
  IF Len(line.nums) < 5 THEN [exc |-> "ValueError", result |-> result]
  ELSE
    LET r1 == ListAppend(result, Key("type"), line.nums[2])
        r2 == ListAppend(r1, Key("id"), line.nums[1])
        r3 == ListAppend(r2, Key("xyz"),
                         <<line.nums[3], line.nums[4], line.nums[5]>>)
    IN IF Len(line.xv) > 0 /\ ~xkeys.none
         THEN AppendExtras(r3, xkeys.ks, line.xv, 1)
         ELSE [exc |-> "none", result |-> r3]

Periodic_AsGiven(hd) == hd

\* Lines 340-345: the periodic tokens of a BOX BOUNDS header; a header
\* without tokens stands for three "ss".
Periodic(hd) == IF hd = <<>> THEN <<"ss", "ss", "ss">> ELSE hd

\* Lines 357-365: the extra names of an ATOMS header (hd holds the words
\* after "ITEM: ATOMS"), each given an empty column.
XHeadings(hd) == IF Len(hd) > 5 THEN SubSeq(hd, 6, Len(hd)) ELSE <<>>

RECURSIVE NewColumns(_, _)
NewColumns(result, xh) ==
  IF xh = <<>> THEN result
  ELSE NewColumns(Put(result, AtomKey(Head(xh)), <<>>, FALSE), Tail(xh))

AtomsBreakSeek_Never(shared) == FALSE

\* Lines 313-314: the header that ends the ATOMS section is given back to
\* the stream only when the stream is the caller's.
AtomsBreakSeek(shared) == shared

\* One pass of the while loop (lines 274-365) over a line that was read.
\* st holds the locals of _read and self.index; the answer adds
\*   ctl  "loop", "break", "abort" (the return {} of line 292) or "raise"
\*   seek whether f.seek(lastpos) ran
ReadStep(st, line, shared, filt) ==
  LET base == [itemstack |-> st.itemstack, current |-> st.current,
               result |-> st.result, xkeys |-> st.xkeys,
               timeskip |-> st.timeskip, laststep |-> st.laststep,
               index |-> st.index, ctl |-> "loop", seek |-> FALSE,
               exc |-> "none"]
  IN
  IF ~st.itemstack.none /\ Len(st.itemstack.st) > 0 THEN
    \* lines 279-309: a value line of the section on top of the stack
    LET n == Len(st.itemstack.st)
        arity == st.itemstack.st[n]
        popped == [none |-> FALSE, st |-> SubSeq(st.itemstack.st, 1, n - 1)]
        vs == Take(line.nums, arity)
        isScalar == Len(vs) = 1
        values == IF isScalar THEN vs[1] ELSE vs
        tp == IF st.current = "time"
                THEN TimePolicy(st.index, values, shared, filt,
                                st.timeskip, st.laststep)
                ELSE [index |-> st.index, timeskip |-> st.timeskip,
                      laststep |-> st.laststep, abort |-> FALSE]
        sr == Store(st.result, st.current, values, isScalar, n = 1)
    IN IF IsHeader(line)
         THEN [base EXCEPT !.itemstack = popped, !.ctl = "raise",
                           !.exc = "ValueError"]
       ELSE IF tp.abort
         THEN [base EXCEPT !.itemstack = popped, !.ctl = "abort",
                           !.result = EmptyDict]
       ELSE [base EXCEPT !.itemstack = popped, !.index = tp.index,
                         !.timeskip = tp.timeskip, !.laststep = tp.laststep,
                         !.result = sr.result, !.exc = sr.exc,
                         !.ctl = IF sr.exc = "none" THEN "loop" ELSE "raise"]
  ELSE IF st.itemstack.none /\ st.current = "atoms" THEN
    \* lines 310-327: inside the ATOMS section
    IF IsHeader(line)
      THEN [base EXCEPT !.current = "None", !.seek = AtomsBreakSeek(shared),
                        !.ctl = "break"]
      ELSE LET ar == AtomRow(st.result, st.xkeys, line)
           IN [base EXCEPT !.result = ar.result, !.exc = ar.exc,
                           !.ctl = IF ar.exc = "none" THEN "loop" ELSE "raise"]
  ELSE IF line.k = "TIMESTEP" THEN
    \* lines 329-335
    IF st.laststep
      THEN [base EXCEPT !.seek = TRUE, !.ctl = "break"]
      ELSE [base EXCEPT !.itemstack.st = Append(@, 1), !.current = "time",
                        !.timeskip = FALSE]
  ELSE IF ~st.timeskip THEN
    \* lines 336-365
    IF line.k = "NATOMS"
      THEN [base EXCEPT !.itemstack.st = Append(@, 1), !.current = "natoms"]
    ELSE IF line.k = "BOX"
      THEN [base EXCEPT !.result = Put(st.result, Key("periodic"),
                                       Periodic(line.hd), FALSE),
                        !.itemstack.st = @ \o <<2, 2, 2>>,
                        !.current = "box"]
    ELSE IF line.k = "ATOMS"
      THEN LET r1 == Put(st.result, Key("type"), <<>>, FALSE)
               r2 == Put(r1, Key("id"), <<>>, FALSE)
               r3 == Put(r2, Key("xyz"), <<>>, FALSE)
               xh == XHeadings(line.hd)
           IN [base EXCEPT !.itemstack = [none |-> TRUE, st |-> <<>>],
                           !.current = "atoms",
                           !.result = NewColumns(r3, xh),
                           !.xkeys = IF Len(line.hd) > 5
                                       THEN [none |-> FALSE,
                                             ks |-> [i \in 1..Len(xh) |->
                                                       AtomKey(xh[i])]]
                                       ELSE st.xkeys]
    ELSE base
  ELSE base

\* ------------------------------------------------------ Timestep.__init__
\* np.array over a column of eval()'d literals: float64 as soon as one of
\* them is a float (an empty column too), int64 otherwise.  Values of a
\* float array are in units of 10^-6.
Micro == 1000000

NpArray(col) ==
  LET isF == col = <<>> \/ \E i \in 1..Len(col) : col[i].f
  IN [dtype |-> IF isF THEN "float" ELSE "int",
      a |-> [i \in 1..Len(col) |->
               IF isF /\ ~col[i].f THEN col[i].v * Micro ELSE col[i].v]]

IntArray(xs) == [dtype |-> "int", a |-> xs]

\* The object of lines 91-96: empty lists, and None for box, periodic and
\* extras (isNone).
Sentinel(index) ==
  [index |-> index, types |-> <<>>, ids |-> <<>>, xyz |-> <<>>,
   box |-> <<>>, periodic |-> <<>>, extras |-> <<>>, attr |-> <<>>,
   isNone |-> TRUE]

\* Lines 103-108: the "atom:" keys of raw, in key order, become names in
\* extras and attributes of the object.
RECURSIVE ExtraAttrs(_, _, _)
ExtraAttrs(raw, i, acc) ==
  IF i > Len(raw.keys) THEN acc
  ELSE LET k == raw.keys[i]
       IN IF k[1] # "atom:" THEN ExtraAttrs(raw, i + 1, acc)
          ELSE ExtraAttrs(raw, i + 1,
                          [extras |-> Append(acc.extras, k[2]),
                           attr |-> (k[2] :> NpArray(raw.val[k])) @@ acc.attr])

SeedExtras_Empty == <<>>

\* Line 102: self.extras = ["ids"].
SeedExtras == <<"ids">>

Incomplete_UnderEight(raw) == Len(raw.keys) < 8

\* Line 90: fewer than six keys in what _read returned.
Incomplete(raw) == Len(raw.keys) < 6

\* Lines 90-114.  The answer is [exc, t]: the exception raised, if any, and
\* the object built.
MkTimestep(raw, index) ==
  IF Incomplete(raw) THEN [exc |-> "none", t |-> Sentinel(index)]
  ELSE IF ~Has(raw, Key("type")) \/ ~Has(raw, Key("id"))
          \/ ~Has(raw, Key("xyz")) \/ ~Has(raw, Key("periodic"))
          \/ ~Has(raw, Key("box")) \/ ~Has(raw, Key("natoms"))
    THEN [exc |-> "KeyError", t |-> Sentinel(index)]
  ELSE
    LET xa == ExtraAttrs(raw, 1, [extras |-> SeedExtras, attr |-> <<>>])
        per == raw.val[Key("periodic")]
        obj == [index |-> index,
                types |-> raw.val[Key("type")],
                ids |-> raw.val[Key("id")],
                xyz |-> raw.val[Key("xyz")],
                box |-> raw.val[Key("box")],
                periodic |-> [i \in 1..Len(per) |-> per[i] = "pp"],
                extras |-> xa.extras,
                attr |-> xa.attr,
                isNone |-> FALSE]
    IN IF Len(obj.xyz) # raw.val[Key("natoms")][1]
         THEN [exc |-> "IndexError", t |-> obj]
         ELSE [exc |-> "none", t |-> obj]

\* getattr(self, name) for a name of self.extras: an extra column called
\* "ids" has replaced the id array.
GetAttr(t, name) ==
  IF name \in DOMAIN t.attr THEN t.attr[name]
  ELSE IntArray(t.ids)

\* Line 117.
TLen(t) == Len(t.xyz)

\* --------------------------------------------------------- Timestep.dump
Abs(x) == IF x < 0 THEN 0 - x ELSE x

\* v rounded to the nearest multiple of u (u even); the modelled values are
\* never halfway between two multiples.
RoundTo(v, u) == ((v + (u \div 2)) \div u) * u

\* "{:.5f}" and "{:.4f}" of a float, read back: 5 and 4 decimals.
Fmt5f(v) == RoundTo(v, 10)
Fmt4f(v) == RoundTo(v, 100)

\* "{:.5e}" of a float, read back: 6 significant digits.
RECURSIVE Pow10Below(_, _)
Pow10Below(a, p) == IF p * 10 > a THEN p ELSE Pow10Below(a, p * 10)
Fmt5e(v) ==
  LET p == Pow10Below(Abs(v), 1)
  IN IF Abs(v) < Micro THEN v ELSE RoundTo(v, p \div 100000)

\* Lines 229-235 and 243: the token written for atom i of an extra column,
\* by the column's element kind.
ExtraToken(col, i) ==
  IF col.dtype = "int" THEN [f |-> FALSE, v |-> col.a[i]]
  ELSE [f |-> TRUE, v |-> Fmt5e(col.a[i])]

\* Lines 239-244: the line of atom i.
DumpAtomLine(t, i) ==
  Line("data", <<>>,
       <<GetAttr(t, "ids").a[i], t.types[i],
         Fmt5f(t.xyz[i][1]), Fmt5f(t.xyz[i][2]), Fmt5f(t.xyz[i][3])>>,
       [j \in 1..Len(t.extras) |-> ExtraToken(GetAttr(t, t.extras[j]), i)])

\* Lines 207-224: the lines before the atoms.  The box is the stored one
\* (rebox False).
DumpHead(t) ==
  <<Line("TIMESTEP", <<>>, <<>>, <<>>), DataLine(<<t.index>>),
    Line("NATOMS", <<>>, <<>>, <<>>), DataLine(<<TLen(t)>>),
    Line("BOX", [i \in 1..Len(t.periodic) |->
                   IF t.periodic[i] THEN "pp" ELSE "ss"], <<>>, <<>>)>>
  \o [i \in 1..Len(t.box) |->
        DataLine(<<Fmt4f(t.box[i][1]), Fmt4f(t.box[i][2])>>)]
  \o <<Line("ATOMS", <<"id", "type", "x", "y", "z">> \o t.extras, <<>>, <<>>)>>

\* The atoms every extra column can supply: getattr(self, x)[iatom] raises
\* IndexError at the first atom past the end of a column.
Writable(t) ==
  { i \in 1..TLen(t) :
      \A j \in 1..Len(t.extras) : \A h \in 1..i :
        h <= Len(GetAttr(t, t.extras[j]).a) }

\* Timestep.dump, lines 206-244: [exc, lines], the lines written before the
\* method ended.  The sentinel has periodic None (TypeError at line 212);
\* with no atoms getattr(self, "ids")[0] raises IndexError at line 230.
DumpLines(t) ==
  IF t.isNone
    THEN [exc |-> "TypeError", lines |-> SubSeq(DumpHead(t), 1, 4)]
  ELSE IF \E j \in 1..Len(t.extras) : Len(GetAttr(t, t.extras[j]).a) = 0
    THEN [exc |-> "IndexError", lines |-> DumpHead(t)]
  ELSE LET n == Cardinality(Writable(t))
       IN [exc |-> IF n < TLen(t) THEN "IndexError" ELSE "none",
           lines |-> DumpHead(t) \o [i \in 1..n |-> DumpAtomLine(t, i)]]

\* --------------------------------------------------------------- equality
\* np.allclose on two numbers in the same unit (rtol 1e-5, atol 1e-8):
\* |x - y| <= atol + rtol * |y|.  In units of 10^-6 this is
\* 10^5 * |x - y| <= 10^3 + |y|; for integers the atol term is below one.
CloseMicro(x, y) ==
  Abs(x - y) <= 21474 /\ 100000 * Abs(x - y) <= 1000 + Abs(y)
CloseInt(x, y) ==
  Abs(x - y) <= 21474 /\ 100000 * Abs(x - y) <= Abs(y)

\* Broadcasting of two arrays along their first axis: lengths must agree
\* unless one of them is 1.
Broadcasts(n, m) == n = m \/ n = 1 \/ m = 1
BLen(n, m) == IF n = 1 THEN m ELSE n
BIdx(n, i) == IF n = 1 THEN 1 ELSE i

\* np.allclose(xs, ys) for 1-d integer arrays: "true", "false" or the
\* exception raised.
AllCloseInts(xs, ys) ==
  IF ~Broadcasts(Len(xs), Len(ys)) THEN "ValueError"
  ELSE IF \A i \in 1..BLen(Len(xs), Len(ys)) :
            CloseInt(xs[BIdx(Len(xs), i)], ys[BIdx(Len(ys), i)])
    THEN "true" ELSE "false"

\* np.allclose(xs, ys) for arrays of rows of floats; an empty one has shape
\* (0,) and broadcasts with no array of rows.
AllCloseRows(xs, ys) ==
  IF Len(xs) = 0 /\ Len(ys) = 0 THEN "true"
  ELSE IF Len(xs) = 0 \/ Len(ys) = 0 \/ ~Broadcasts(Len(xs), Len(ys))
    THEN "ValueError"
  ELSE IF \A i \in 1..BLen(Len(xs), Len(ys)) :
            LET x == xs[BIdx(Len(xs), i)]
                y == ys[BIdx(Len(ys), i)]
            IN \A c \in 1..Len(x) : CloseMicro(x[c], y[c])
    THEN "true" ELSE "false"

\* a and b and ...: the first answer that is not "true".
RECURSIVE AndAll(_)
AndAll(xs) ==
  IF xs = <<>> THEN "true"
  ELSE IF Head(xs) # "true" THEN Head(xs)
  ELSE AndAll(Tail(xs))

Bool(b) == IF b THEN "true" ELSE "false"

\* An integer array's values as np.allclose sees them.
IdsInts(t) == GetAttr(t, "ids").a

\* Timestep.__eq__, lines 118-126, between two populated records.
TimestepEq(a, b) ==
  AndAll(<<AllCloseRows(a.xyz, b.xyz),
           AllCloseInts(IdsInts(a), IdsInts(b)),
           AllCloseInts(a.types, b.types),
           Bool(a.extras = b.extras),
           AllCloseRows(a.box, b.box),
           Bool(a.periodic = b.periodic)>>)

\* Dump.__iter__, lines 31-32: the items of steps, (index, Timestep) pairs.
DumpIter(d) == d

\* a == b on two items of the iteration: tuples compare element by element,
\* the index first.
ItemEq(a, b) ==
  IF a[1] # b[1] THEN "false" ELSE TimestepEq(a[2], b[2])

\* Dump.__eq__, lines 38-41: all(a == b for a, b in zip(self, other)).
RECURSIVE ZipAll(_, _, _)
ZipAll(xs, ys, i) ==
  IF i > Len(xs) \/ i > Len(ys) THEN "true"
  ELSE LET e == ItemEq(xs[i], ys[i])
       IN IF e # "true" THEN e ELSE ZipAll(xs, ys, i + 1)

DumpEq(d1, d2) == ZipAll(DumpIter(d1), DumpIter(d2), 1)

\* ------------------------------------------------------------- the state
VARIABLES
  fs,         \* the file system: path -> lines
  prog,       \* the caller's program: [kind, index, filt]
  pc,         \* "start", "read" (in the loop of _read), "init" (_read has
              \* returned to __init__), "ret" (the constructor has returned),
              \* "built" (Dump.__init__ has returned), "dumped", "done",
              \* "raised"
  path,       \* self.filepath of the running constructor
  index,      \* self.index of the running constructor (NoneV for None)
  shared,     \* openf is not None
  filt,       \* stepfilter
  f,          \* the stream: [open, pos]
  itemstack, current, result, xkeys, timeskip, laststep, lastpos,
              \* locals of _read
  t,          \* the Timestep the last constructor call returned
  steps,      \* Dump.steps, as <<index, Timestep>> pairs in insertion order
  exc,        \* the exception that ended the program, "none" otherwise
  kept,       \* what the caller holds from before: [has, t, steps]
  res,        \* the answer of the caller's == ("unset", "true", "false")
              \* or "GrainBoundary" for what gb returned
  sel,        \* gblearn.selection as gb used it: [imported, invoked]
  calls       \* history: per constructor call [start, reads, end, ret]

locals == <<itemstack, current, result, xkeys, timeskip, laststep, lastpos>>
caller == <<kept, res, sel>>
vars == <<fs, prog, pc, path, index, shared, filt, f, locals, t, steps, exc,
          caller, calls>>

NoFilter == [has |-> FALSE, s |-> {}]
Filters == {NoFilter} \cup { [has |-> TRUE, s |-> S] : S \in SUBSET (0..MaxIndex) }

\* Dump(path, stepfilter); Timestep(path, k); Timestep(path, k, f) followed
\* by Timestep(path, None, f) on the same open file.
Progs ==
  { [kind |-> "Dump", index |-> NoneV, filt |-> fl] : fl \in Filters }
  \cup { [kind |-> k, index |-> i, filt |-> NoFilter] :
           k \in {"Timestep", "Shared"}, i \in 0..MaxIndex }

\* Timestep(in, k), t.dump(out), Timestep(out, k), then ==.
ProgsRT == { [kind |-> "RoundTrip", index |-> i, filt |-> NoFilter] :
               i \in 0..MaxIndex }

\* Dump(in), Dump(out), then ==.
ProgsEq == { [kind |-> "Eq", index |-> NoneV, filt |-> NoFilter] }

\* Files of 1..MaxEqRecs complete records.
MaxEqRecs == 2
EqFiles ==
  UNION { { Concat([i \in 1..n |-> RecLines(ix[i], sh[i])]) :
              ix \in IndexSeqs(n), sh \in [1..n -> CompleteShapes] } :
          n \in 1..MaxEqRecs }

\* gblearn.selection has not been imported and none of its functions called.
NoSelection == [imported |-> FALSE, invoked |-> <<>>]

InitWith(fss, progs) ==
  /\ fs \in fss
  /\ prog \in progs
  /\ pc = "start"
  /\ path = "in"
  /\ index = NoneV
  /\ shared = FALSE
  /\ filt = NoFilter
  /\ f = [open |-> FALSE, pos |-> 0]
  /\ itemstack = [none |-> FALSE, st |-> <<>>]
  /\ current = "None"
  /\ result = EmptyDict
  /\ xkeys = [none |-> TRUE, ks |-> <<>>]
  /\ timeskip = FALSE
  /\ laststep = FALSE
  /\ lastpos = 0
  /\ t = Sentinel(NoneV)
  /\ steps = <<>>
  /\ exc = "none"
  /\ kept = [has |-> FALSE, t |-> Sentinel(NoneV), steps |-> <<>>]
  /\ res = "unset"
  /\ sel = NoSelection
  /\ calls = <<>>

Init == InitWith({ [in |-> file, out |-> <<>>] : file \in Files }, Progs)
InitRT == InitWith({ [in |-> file, out |-> <<>>] : file \in Files }, ProgsRT)
InitEq == InitWith({ [in |-> a, out |-> b] : a \in EqFiles, b \in EqFiles },
                   ProgsEq)

\* Lines 83-87 and 260-272: a constructor call enters _read.
Enter(p, idx, sh, fl, stream) ==
  /\ pc' = "read"
  /\ path' = p
  /\ index' = idx
  /\ shared' = sh
  /\ filt' = fl
  /\ f' = stream
  /\ itemstack' = [none |-> FALSE, st |-> <<>>]
  /\ current' = "None"
  /\ result' = EmptyDict
  /\ xkeys' = [none |-> TRUE, ks |-> <<>>]
  /\ timeskip' = FALSE
  /\ laststep' = FALSE
  /\ lastpos' = lastpos
  /\ calls' = Append(calls, [start |-> stream.pos, reads |-> {}, end |-> NoneV,
                            ret |-> "running"])

IsDumpProg == prog.kind \in {"Dump", "Eq", "DumpDump"}

\* Dump.__init__, lines 18-24: open the file, first Timestep(...).
DumpOpen ==
  /\ pc = "start" /\ IsDumpProg
  /\ Enter("in", NoneV, TRUE, prog.filt, [open |-> TRUE, pos |-> 0])
  /\ UNCHANGED <<fs, prog, t, steps, exc, caller>>

\* Timestep(path, k): _read opens its own stream (line 268).
TimestepNew ==
  /\ pc = "start" /\ prog.kind = "Timestep"
  /\ Enter("in", prog.index, FALSE, NoFilter, [open |-> TRUE, pos |-> 0])
  /\ UNCHANGED <<fs, prog, t, steps, exc, caller>>

\* with open(path) as fh: Timestep(path, k, fh)
SharedOpen ==
  /\ pc = "start" /\ prog.kind = "Shared"
  /\ Enter("in", prog.index, TRUE, NoFilter, [open |-> TRUE, pos |-> 0])
  /\ UNCHANGED <<fs, prog, t, steps, exc, caller>>

\* The stream is closed by _read when it opened it (line 369) and by the
\* caller's with block when an exception leaves it.
ClosedOnRaise == prog.kind \in {"Dump", "Eq", "Shared", "DumpDump"}

\* Line 292: return {} leaves _read with no call of f.close().  A stream
\* that _read opened is then unreachable, and whether it is still open when
\* the caller goes on is the interpreter's choice (reference counting
\* reclaims it at once, a tracing collector later); the caller's stream
\* stays as it is.
AbortLeaves(sh, open) == IF sh THEN {open} ELSE {TRUE, FALSE}

\* One pass of the loop of _read: lines 273-365, and 367-371 when the loop
\* ends.
ReadLine ==
  /\ pc = "read"
  /\ lastpos' = f.pos
  /\ LET file == fs[path]
         n == Len(calls)
     IN IF f.pos >= Len(file)
          THEN \* readline() returned '': the loop ends, _read returns
               /\ pc' = "init"
               /\ f' = [f EXCEPT !.open = IF shared THEN @ ELSE FALSE]
               /\ UNCHANGED <<index, itemstack, current, result, xkeys,
                              timeskip, laststep, exc, calls>>
          ELSE LET r == ReadStep([itemstack |-> itemstack,
                                  current |-> current, result |-> result,
                                  xkeys |-> xkeys, timeskip |-> timeskip,
                                  laststep |-> laststep, index |-> index],
                                 file[f.pos + 1], shared, filt)
               IN /\ itemstack' = r.itemstack
                  /\ current' = r.current
                  /\ result' = r.result
                  /\ xkeys' = r.xkeys
                  /\ timeskip' = r.timeskip
                  /\ laststep' = r.laststep
                  /\ index' = r.index
                  /\ calls' = [calls EXCEPT ![n].reads = @ \cup {f.pos + 1},
                                            ![n].ret = IF r.ctl = "raise"
                                                         THEN "raised" ELSE @]
                  /\ exc' = r.exc
                  /\ pc' = CASE r.ctl = "loop" -> "read"
                             [] r.ctl = "raise" -> "raised"
                             [] OTHER -> "init"
                  /\ \E o \in (IF r.ctl = "abort"
                                 THEN AbortLeaves(shared, f.open)
                                 ELSE {f.open}) :
                       f' = [pos |-> IF r.seek THEN f.pos ELSE f.pos + 1,
                             open |-> CASE r.ctl = "break" -> shared
                                        [] r.ctl = "raise" -> ~ClosedOnRaise
                                        [] OTHER -> o]
  /\ UNCHANGED <<fs, prog, path, shared, filt, t, steps, caller>>

\* Timestep.__init__, lines 88-114, on what _read returned.
TimestepInit ==
  /\ pc = "init"
  /\ LET m == MkTimestep(result, index)
         n == Len(calls)
     IN /\ exc' = m.exc
        /\ IF m.exc = "none"
             THEN /\ pc' = "ret"
                  /\ t' = m.t
                  /\ f' = f
                  /\ calls' = [calls EXCEPT
                       ![n].end = f.pos,
                       ![n].ret = IF m.t.isNone THEN "sentinel"
                                  ELSE "populated"]
             ELSE /\ pc' = "raised"
                  /\ t' = t
                  /\ f' = [f EXCEPT !.open = IF ClosedOnRaise THEN FALSE ELSE @]
                  /\ calls' = [calls EXCEPT ![n].ret = "raised"]
  /\ UNCHANGED <<fs, prog, path, index, shared, filt, locals, steps, caller>>

\* self.steps[k] = v on the insertion-ordered dict.
DictSet(d, k, v) ==
  IF \E i \in 1..Len(d) : d[i][1] = k
    THEN [i \in 1..Len(d) |-> IF d[i][1] = k THEN <<k, v>> ELSE d[i]]
    ELSE Append(d, <<k, v>>)

\* Dump.__init__, lines 25-27: the loop body.
DumpInsert ==
  /\ pc = "ret" /\ IsDumpProg
  /\ TLen(t) > 0
  /\ steps' = DictSet(steps, t.index, t)
  /\ Enter(path, NoneV, TRUE, prog.filt, f)
  /\ UNCHANGED <<fs, prog, t, exc, caller>>

\* Dump.__init__, line 25 false: the loop and the with block end.
DumpClose ==
  /\ pc = "ret" /\ IsDumpProg
  /\ ~(TLen(t) > 0)
  /\ pc' = "built"
  /\ f' = [f EXCEPT !.open = FALSE]
  /\ UNCHANGED <<fs, prog, path, index, shared, filt, locals, t, steps, exc,
                 caller, calls>>

\* The caller of a shared-stream Timestep(path, k, fh) parses again from
\* the same stream: Timestep(path, None, fh).
SharedNext ==
  /\ pc = "ret" /\ prog.kind = "Shared" /\ Len(calls) = 1
  /\ Enter("in", NoneV, TRUE, NoFilter, f)
  /\ UNCHANGED <<fs, prog, t, steps, exc, caller>>

SharedClose ==
  /\ pc = "ret" /\ prog.kind = "Shared" /\ Len(calls) = 2
  /\ pc' = "done"
  /\ f' = [f EXCEPT !.open = FALSE]
  /\ UNCHANGED <<fs, prog, path, index, shared, filt, locals, t, steps, exc,
                 caller, calls>>

TimestepDone ==
  /\ pc = "ret" /\ prog.kind = "Timestep"
  /\ pc' = "done"
  /\ UNCHANGED <<fs, prog, path, index, shared, filt, f, locals, t, steps,
                 exc, caller, calls>>

\* Timestep(in, k) of the round trip.
RTParse ==
  /\ pc = "start" /\ prog.kind = "RoundTrip"
  /\ Enter("in", prog.index, FALSE, NoFilter, [open |-> TRUE, pos |-> 0])
  /\ UNCHANGED <<fs, prog, t, steps, exc, caller>>

\* t.dump(out): Timestep.dump, lines 197-244, mode 'a', rebox False.
TimestepDump ==
  /\ pc = "ret" /\ prog.kind = "RoundTrip" /\ Len(calls) = 1
  /\ LET d == DumpLines(t)
     IN /\ fs' = [fs EXCEPT !["out"] = @ \o d.lines]
        /\ exc' = d.exc
        /\ pc' = IF d.exc = "none" THEN "dumped" ELSE "raised"
  /\ kept' = [kept EXCEPT !.has = TRUE, !.t = t]
  /\ UNCHANGED <<prog, path, index, shared, filt, f, locals, t, steps, res,
                 sel, calls>>

\* Timestep(out, k): the written file is parsed back.
RTReparse ==
  /\ pc = "dumped" /\ prog.kind = "RoundTrip"
  /\ Enter("out", prog.index, FALSE, NoFilter, [open |-> TRUE, pos |-> 0])
  /\ UNCHANGED <<fs, prog, t, steps, exc, caller>>

\* parsed == R: Timestep.__eq__.
RTCompare ==
  /\ pc = "ret" /\ prog.kind = "RoundTrip" /\ Len(calls) = 2
  /\ LET e == TimestepEq(t, kept.t)
     IN IF e \in {"true", "false"}
          THEN res' = e /\ exc' = exc /\ pc' = "done"
          ELSE res' = res /\ exc' = e /\ pc' = "raised"
  /\ UNCHANGED <<fs, prog, path, index, shared, filt, f, locals, t, steps,
                 kept, sel, calls>>

\* Dump(out) after Dump(in).
EqSecond ==
  /\ pc = "built" /\ prog.kind = "Eq" /\ ~kept.has
  /\ kept' = [kept EXCEPT !.has = TRUE, !.steps = steps]
  /\ steps' = <<>>
  /\ Enter("out", NoneV, TRUE, prog.filt, [open |-> TRUE, pos |-> 0])
  /\ UNCHANGED <<fs, prog, t, exc, res, sel>>

\* Dump(in) == Dump(out): Dump.__eq__.
EqCompare ==
  /\ pc = "built" /\ prog.kind = "Eq" /\ kept.has
  /\ LET e == DumpEq(kept.steps, steps)
     IN IF e \in {"true", "false"}
          THEN res' = e /\ exc' = exc /\ pc' = "done"
          ELSE res' = res /\ exc' = e /\ pc' = "raised"
  /\ UNCHANGED <<fs, prog, path, index, shared, filt, f, locals, t, steps,
                 kept, sel, calls>>

Next ==
  \/ DumpOpen
  \/ TimestepNew
  \/ SharedOpen
  \/ ReadLine
  \/ TimestepInit
  \/ DumpInsert
  \/ DumpClose
  \/ SharedNext
  \/ SharedClose
  \/ TimestepDone

NextRT ==
  \/ RTParse
  \/ ReadLine
  \/ TimestepInit
  \/ TimestepDump
  \/ RTReparse
  \/ RTCompare

NextEq ==
  \/ DumpOpen
  \/ ReadLine
  \/ TimestepInit
  \/ DumpInsert
  \/ DumpClose
  \/ EqSecond
  \/ EqCompare

Spec == Init /\ [][Next]_vars
SpecRT == InitRT /\ [][NextRT]_vars
SpecEq == InitEq /\ [][NextEq]_vars

\* ------------------------------------------------------------- Dump.dump
\* d = Dump(in); d.dump(filename, mode).  The paths of the file system are
\* the input, "out", the literal "~/out" (a file in a directory called "~"
\* of the working directory) and "home/out", the file "out" of the user's
\* home directory.  tilde tells whether the directory "~" exists, prior is
\* what the output paths hold beforehand.
Old == <<DataLine(<<0>>)>>

ProgsDD ==
  { [kind |-> "DumpDump", index |-> NoneV, filt |-> NoFilter,
     filename |-> fn, mode |-> m, tilde |-> td, prior |-> pr] :
      fn \in {"out", "~/out"}, m \in {"w", "a"}, td \in BOOLEAN,
      pr \in {<<>>, Old} }

\* Files of 1..MaxEqRecs records that are complete or carry extra columns.
DDShapes == CompleteShapes \cup {Shape(2, 2, "none", <<>>, <<"c_csd", "q">>, 2)}
DDFiles ==
  UNION { { Concat([i \in 1..n |-> RecLines(ix[i], sh[i])]) :
              ix \in IndexSeqs(n), sh \in [1..n -> DDShapes] } :
          n \in 1..MaxEqRecs }

DDfs(file, p) ==
  [q \in {"in", "out", "~/out", "home/out"} |->
     IF q = "in" THEN file
     ELSE IF q = "~/out" /\ ~p.tilde THEN <<>>
     ELSE p.prior]

InitDD ==
  /\ InitWith({ DDfs(file, p) : file \in DDFiles, p \in ProgsDD }, ProgsDD)
  /\ fs = DDfs(fs["in"], prog)

\* Line 53: path.abspath(path.expanduser(filename)).
ExpandUser(filename) == IF filename = "~/out" THEN "home/out" ELSE filename

\* Line 54.
TruncateFirst(mode) == mode = "w"

\* open(filename, 'a') of Timestep.dump (line 206): the name is used as
\* given, and its directory has to exist.
CanOpen(filename, p) == filename # "~/out" \/ p.tilde

\* Lines 56-57: ts.dump(filename) for each record from the i-th on, every
\* call appending to content; the first exception ends the loop.
RECURSIVE WriteAll(_, _, _)
WriteAll(sts, i, content) ==
  IF i > Len(sts) THEN [exc |-> "none", content |-> content]
  ELSE LET d == DumpLines(sts[i][2])
       IN IF d.exc # "none"
            THEN [exc |-> d.exc, content |-> content \o d.lines]
            ELSE WriteAll(sts, i + 1, content \o d.lines)

\* Dump.dump, lines 43-57.
DumpDump ==
  /\ pc = "built" /\ prog.kind = "DumpDump"
  /\ LET filepath == ExpandUser(prog.filename)
         fs1 == IF TruncateFirst(prog.mode)
                  THEN [fs EXCEPT ![filepath] = <<>>] ELSE fs
         w == WriteAll(steps, 1, fs1[prog.filename])
     IN IF steps # <<>> /\ ~CanOpen(prog.filename, prog)
          THEN /\ fs' = fs1
               /\ exc' = "FileNotFoundError"
               /\ pc' = "raised"
          ELSE /\ fs' = [fs1 EXCEPT ![prog.filename] = w.content]
               /\ exc' = w.exc
               /\ pc' = IF w.exc = "none" THEN "done" ELSE "raised"
  /\ kept' = [kept EXCEPT !.has = TRUE]
  /\ UNCHANGED <<prog, path, index, shared, filt, f, locals, t, steps, res,
                 sel, calls>>

NextDD ==
  \/ DumpOpen
  \/ ReadLine
  \/ TimestepInit
  \/ DumpInsert
  \/ DumpClose
  \/ DumpDump

SpecDD == InitDD /\ [][NextDD]_vars

\* ------------------------------------------------------------ Timestep.gb
\* t = Timestep(in, k); t.gb(Z, method, pattr, extras).
ProgsGb ==
  { [kind |-> "Gb", index |-> i, filt |-> NoFilter, Z |-> z, method |-> m,
     pattr |-> pa, extras |-> e] :
      i \in 0..MaxIndex, z \in {NoneV, 0}, m \in {"median", "cna", "mean"},
      pa \in {"c_csd", "q"}, e \in BOOLEAN }

\* Files of one record, of every shape.
GbFiles == { RecLines(ix, sh) : ix \in 0..MaxIndex, sh \in Shapes }

InitGb == InitWith({ [in |-> file, out |-> <<>>] : file \in GbFiles }, ProgsGb)

GbParse ==
  /\ pc = "start" /\ prog.kind = "Gb"
  /\ Enter("in", prog.index, FALSE, NoFilter, [open |-> TRUE, pos |-> 0])
  /\ UNCHANGED <<fs, prog, t, steps, exc, caller>>

MissingZ_Never(Z) == FALSE

\* Line 149: Z is None.
MissingZ(Z) == Z = NoneV

\* Lines 188-191: the methods gbids knows.
MethMap == {"median", "cna"}

\* Timestep.gb, lines 149-161, with gbids, lines 187-194.  The selection
\* functions and GrainBoundary are other modules: a selection answers with
\* some set of atom positions, and GrainBoundary takes what it is given.
\* The sentinel has xyz = [] and types = [] but no extra column, and its
\* extras is None: with a method gbids knows, getattr(self, pattr) raises
\* AttributeError; with any other method gbids returns None and gb raises
\* TypeError, at line 156 (None is not iterable) when extras is true and at
\* line 159 (a list indexed by a tuple) when it is false.
Gb ==
  /\ pc = "ret" /\ prog.kind = "Gb"
  /\ IF MissingZ(prog.Z)
       THEN /\ exc' = "ValueError" /\ pc' = "raised"
            /\ UNCHANGED <<res, sel>>
     ELSE IF prog.method \in MethMap /\ prog.pattr \notin DOMAIN t.attr
       THEN /\ exc' = "AttributeError" /\ pc' = "raised"
            /\ sel' = [sel EXCEPT !.imported = TRUE]
            /\ res' = res
     ELSE IF t.isNone
       THEN /\ exc' = "TypeError" /\ pc' = "raised"
            /\ sel' = [sel EXCEPT !.imported = TRUE]
            /\ res' = res
     ELSE IF prog.method \notin MethMap
       THEN /\ exc' = exc /\ pc' = "done"
            /\ sel' = [sel EXCEPT !.imported = TRUE]
            /\ res' = "GrainBoundary"
     ELSE \E ids \in SUBSET (1..TLen(t)) :
            /\ sel' = [imported |-> TRUE,
                       invoked |-> Append(sel.invoked,
                                          [method |-> prog.method, ids |-> ids])]
            /\ IF prog.extras
                  /\ \E j \in 1..Len(t.extras) : \E i \in ids :
                        i > Len(GetAttr(t, t.extras[j]).a)
                 THEN exc' = "IndexError" /\ pc' = "raised" /\ res' = res
                 ELSE exc' = exc /\ pc' = "done" /\ res' = "GrainBoundary"
  /\ UNCHANGED <<fs, prog, path, index, shared, filt, f, locals, t, steps,
                 kept, calls>>

NextGb ==
  \/ GbParse
  \/ ReadLine
  \/ TimestepInit
  \/ Gb

SpecGb == InitGb /\ [][NextGb]_vars

\* ------------------------------------------------ reading the input file
\* What a file holds, read off its lines without the parser: record r is the
\* lines from the r-th "ITEM: TIMESTEP" header up to the next one.
InFile == fs["in"]

RecOf(file, i) == Cardinality({ j \in 1..i : file[j].k = "TIMESTEP" })
NRecs(file) == RecOf(file, Len(file))
RecLinesOf(file, r) == { i \in 1..Len(file) : RecOf(file, i) = r }
RecStart(file, r) == CHOOSE i \in RecLinesOf(file, r) : file[i].k = "TIMESTEP"
RecIndex(file, r) == file[RecStart(file, r) + 1].nums[1]
RecHas(file, r, k) == \E i \in RecLinesOf(file, r) : file[i].k = k
AtomLinesOf(file, r) ==
  { i \in RecLinesOf(file, r) :
      /\ file[i].k = "data"
      /\ \E j \in RecLinesOf(file, r) : j < i /\ file[j].k = "ATOMS" }
RecDeclared(file, r) ==
  LET i == CHOOSE j \in RecLinesOf(file, r) : file[j].k = "NATOMS"
  IN file[i + 1].nums[1]
RecBox(file, r) ==
  LET i == CHOOSE j \in RecLinesOf(file, r) : file[j].k = "BOX"
  IN <<file[i + 1].nums, file[i + 2].nums, file[i + 3].nums>>
RecIds(file, r) ==
  LET i == CHOOSE j \in RecLinesOf(file, r) : file[j].k = "ATOMS"
  IN [a \in 1..Cardinality(AtomLinesOf(file, r)) |-> file[i + a].nums[1]]

\* A record with all four sections; one whose declared count is the number
\* of its atom lines.
CompleteRec(file, r) ==
  RecHas(file, r, "NATOMS") /\ RecHas(file, r, "BOX") /\ RecHas(file, r, "ATOMS")
CountedRec(file, r) ==
  CompleteRec(file, r)
  /\ RecDeclared(file, r) = Cardinality(AtomLinesOf(file, r))
AllCounted(file) == \A r \in 1..NRecs(file) : CountedRec(file, r)
AllNonEmpty(file) ==
  \A r \in 1..NRecs(file) : Cardinality(AtomLinesOf(file, r)) > 0
FileIndices(file) == { RecIndex(file, r) : r \in 1..NRecs(file) }

StepKeys == { steps[i][1] : i \in 1..Len(steps) }
StepAt(k) == (CHOOSE i \in 1..Len(steps) : steps[i][1] = k)
Ended == pc \in {"built", "done", "raised"}

\* ----------------------------------------------------------------- claims
LastCall == calls[Len(calls)]

\* C1: a Dump built with an allow-list from a file of complete records holds
\* exactly the file's TIMESTEP values that are in the allow-list, each key
\* with the atoms of its own record.
C1_FilterKeys ==
  (/\ prog.kind = "Dump" /\ prog.filt.has
   /\ AllCounted(InFile) /\ AllNonEmpty(InFile)
   /\ Ended)
  => /\ pc = "built"
     /\ StepKeys = FileIndices(InFile) \cap prog.filt.s
     /\ \A r \in 1..NRecs(InFile) :
          RecIndex(InFile, r) \in prog.filt.s
          => steps[StepAt(RecIndex(InFile, r))][2].ids = RecIds(InFile, r)

\* C2: a parse with target k over increasing TIMESTEP values, one smaller
\* than k and one equal to k, drops the smaller records and returns the
\* record whose TIMESTEP is k with that record's box and atoms.
C2_SeekTarget ==
  (/\ prog.kind \in {"Timestep", "Shared"} /\ Len(calls) = 1
   /\ pc \in {"ret", "raised"}
   /\ AllCounted(InFile) /\ AllNonEmpty(InFile)
   /\ \E r \in 1..NRecs(InFile) : RecIndex(InFile, r) < prog.index
   /\ \E r \in 1..NRecs(InFile) : RecIndex(InFile, r) = prog.index)
  => LET r == CHOOSE q \in 1..NRecs(InFile) : RecIndex(InFile, q) = prog.index
     IN /\ pc = "ret"
        /\ ~t.isNone
        /\ t.index = prog.index
        /\ t.box = RecBox(InFile, r)
        /\ t.ids = RecIds(InFile, r)

\* C3: with a target and a shared stream, a TIMESTEP value greater than the
\* target makes the call return the sentinel with the cursor at the start of
\* that same record's TIMESTEP header, and the next call on the stream reads
\* that record.
C3_RewindToSameRecord ==
  (/\ prog.kind = "Shared" /\ pc = "ret"
   /\ CountedRec(InFile, 1)
   /\ RecIndex(InFile, 1) > prog.index)
  => /\ Len(calls) = 1 => t.isNone /\ f.pos = RecStart(InFile, 1) - 1
     /\ Len(calls) = 2 => t.index = RecIndex(InFile, 1)

\* No call reads a line of a record that an earlier call returned.
NoReRead ==
  \A c1, c2 \in 1..Len(calls) :
    c1 < c2 /\ calls[c1].ret = "populated"
    => \A i \in calls[c2].reads :
         RecOf(InFile, i) # RecOf(InFile, calls[c1].start + 1)

\* C5: a file of n complete records with distinct indices, read by the Dump
\* driver with no filter, gives a Dump of length n, each key with its own
\* record's atom count, and no call reads a line of a record returned
\* earlier.
C5_SequentialScan ==
  (/\ prog.kind = "Dump" /\ ~prog.filt.has
   /\ AllCounted(InFile)
   /\ Ended)
  => /\ pc = "built"
     /\ Len(steps) = NRecs(InFile)
     /\ \A r \in 1..NRecs(InFile) :
          /\ RecIndex(InFile, r) \in StepKeys
          /\ TLen(steps[StepAt(RecIndex(InFile, r))][2])
               = Cardinality(AtomLinesOf(InFile, r))
     /\ NoReRead

\* The statement of C5 on files whose records all have at least one atom
\* line: there the scan is complete and reads no line twice across calls.
SequentialScanNonEmpty ==
  (/\ prog.kind = "Dump" /\ ~prog.filt.has
   /\ AllCounted(InFile) /\ AllNonEmpty(InFile)
   /\ Ended)
  => /\ pc = "built"
     /\ Len(steps) = NRecs(InFile)
     /\ \A r \in 1..NRecs(InFile) :
          /\ RecIndex(InFile, r) \in StepKeys
          /\ TLen(steps[StepAt(RecIndex(InFile, r))][2])
               = Cardinality(AtomLinesOf(InFile, r))
     /\ NoReRead

\* C6: when a call on a shared stream has returned, the cursor is at the end
\* of the stream or at the start of the TIMESTEP header of the next record,
\* and a header read after the ATOMS header has not been consumed.
C6_CursorAtBoundary ==
  (pc \in {"init", "ret"} /\ shared)
  => /\ \/ f.pos = Len(fs[path])
        \/ fs[path][f.pos + 1].k = "TIMESTEP"
     /\ \A i, j \in LastCall.reads :
          (j < i /\ fs[path][j].k = "ATOMS" /\ IsHeader(fs[path][i]))
          => f.pos < i

\* C6 witness: a populated record was returned and the cursor is at the
\* header of the record after it, which the call had read.
C6_Witness ==
  /\ pc = "ret" /\ shared /\ ~t.isNone
  /\ f.pos < Len(fs[path])
  /\ fs[path][f.pos + 1].k = "TIMESTEP"
  /\ f.pos + 1 \in LastCall.reads

\* C8: the Dump driver keeps a complete record that has no atom lines under
\* its own index and goes on to the records after it.
C8_EmptyRecordKept ==
  (/\ prog.kind = "Dump" /\ ~prog.filt.has
   /\ AllCounted(InFile)
   /\ pc = "built")
  => \A r \in 1..NRecs(InFile) :
       /\ RecIndex(InFile, r) \in StepKeys
       /\ ~steps[StepAt(RecIndex(InFile, r))][2].isNone

\* C9: a parse of a record that lacks the NUMBER OF ATOMS, the BOX BOUNDS or
\* the ATOMS section returns the sentinel and raises nothing.
C9_IncompleteIsSentinel ==
  (/\ NRecs(InFile) = 1 /\ ~CompleteRec(InFile, 1)
   /\ Len(calls) = 1
   /\ pc \in {"ret", "raised"})
  => /\ pc = "ret"
     /\ t.isNone /\ TLen(t) = 0

\* C10: with a target and a private stream whose first TIMESTEP value is
\* greater than the target, the call returns the sentinel, raises nothing
\* and reads nothing after the TIMESTEP value.
C10_PrivateAbort ==
  (/\ prog.kind = "Timestep" /\ pc # "start"
   /\ RecIndex(InFile, 1) > prog.index)
  => /\ pc # "raised"
     /\ LastCall.reads \subseteq {1, 2}
     /\ pc \in {"ret", "done"} => t.isNone /\ TLen(t) = 0

\* C10 witness: the call has returned on a file that holds more than the
\* two lines read.
C10_Witness ==
  /\ prog.kind = "Timestep" /\ pc = "done"
  /\ RecIndex(InFile, 1) > prog.index
  /\ t.isNone
  /\ Len(InFile) > 2 /\ LastCall.reads = {1, 2}

\* C4: a record with at least one atom, written by Timestep.dump to an empty
\* file and parsed back, equals the original under Timestep.__eq__, with
\* the same extra-column names in the same order.
C4_RoundTrip ==
  (/\ prog.kind = "RoundTrip" /\ Ended
   /\ kept.has /\ ~kept.t.isNone /\ TLen(kept.t) >= 1)
  => /\ pc = "done"
     /\ res = "true"
     /\ t.extras = kept.t.extras

\* C7: two Dumps whose records, in iteration order, are pairwise equal as
\* Timesteps compare equal, whatever index keys they are stored under.
C7_EqIgnoresIndex ==
  (/\ prog.kind = "Eq" /\ pc = "done"
   /\ Len(kept.steps) = Len(steps)
   /\ \A i \in 1..Len(steps) :
        TimestepEq(kept.steps[i][2], steps[i][2]) = "true")
  => res = "true"

\* C11: a record whose declared NUMBER OF ATOMS differs from the number of
\* its atom lines parses without an exception, and the length of the record
\* returned is the number of atom lines present.
C11_MismatchTolerated ==
  (/\ prog.kind = "Timestep" /\ pc \in {"done", "raised"}
   /\ RecIndex(InFile, 1) = prog.index
   /\ CompleteRec(InFile, 1)
   /\ RecDeclared(InFile, 1) # Cardinality(AtomLinesOf(InFile, 1)))
  => /\ pc = "done" /\ exc = "none"
     /\ ~t.isNone
     /\ TLen(t) = Cardinality(AtomLinesOf(InFile, 1))

\* What Timestep.dump writes for the records of the Dump, in iteration order.
DumpedLines == Concat([i \in 1..Len(steps) |-> DumpLines(steps[i][2]).lines])

\* C12: Dump.dump ends without an exception and the target, the path that
\* Dump.dump resolves filename to, then holds every record of the Dump once,
\* in iteration order, after nothing when mode is 'w' and after its
\* previous contents with any other mode.
C12_DumpWritesAll ==
  (prog.kind = "DumpDump" /\ pc \in {"done", "raised"} /\ kept.has)
  => /\ pc = "done"
     /\ fs[ExpandUser(prog.filename)]
          = (IF prog.mode = "w" THEN <<>> ELSE prog.prior) \o DumpedLines

\* The same for a filename that expanduser leaves as it is.
DumpWritesAllPlain ==
  (/\ prog.kind = "DumpDump" /\ pc \in {"done", "raised"} /\ kept.has
   /\ ExpandUser(prog.filename) = prog.filename)
  => /\ pc = "done"
     /\ fs[prog.filename]
          = (IF prog.mode = "w" THEN <<>> ELSE prog.prior) \o DumpedLines

\* The words after "ITEM: BOX BOUNDS" of record r.
RecPer(file, r) ==
  LET i == CHOOSE j \in RecLinesOf(file, r) : file[j].k = "BOX"
  IN file[i].hd

\* The periodic flags the words of a BOX BOUNDS header stand for.
FlagsOf(hd) ==
  IF hd = <<>> THEN <<FALSE, FALSE, FALSE>>
  ELSE [i \in 1..Len(hd) |-> hd[i] = "pp"]

\* C13: a populated record was read from a record of the file that has a
\* BOX BOUNDS header, and each of its periodic flags is true exactly when
\* that header's word for the axis is "pp"; a header without words gives
\* (false, false, false).
C13_PeriodicFromTokens ==
  (pc = "ret" /\ ~t.isNone)
  => \E r \in 1..NRecs(fs[path]) :
       /\ RecIndex(fs[path], r) = t.index
       /\ RecHas(fs[path], r, "BOX")
       /\ t.periodic = FlagsOf(RecPer(fs[path], r))

\* C13 witness: a populated record read under a BOX BOUNDS header that has
\* no words, with all three flags false.
C13_Witness ==
  /\ pc = "ret" /\ ~t.isNone
  /\ \E r \in 1..NRecs(InFile) :
       /\ RecIndex(InFile, r) = t.index
       /\ RecHas(InFile, r, "BOX") /\ RecPer(InFile, r) = <<>>
  /\ t.periodic = <<FALSE, FALSE, FALSE>>

\* C14: gb called without Z raises ValueError whatever method, pattr and
\* extras are, gblearn.selection is neither imported nor called, no
\* GrainBoundary is returned and the record is left as it was.
C14_GbRequiresZ ==
  [][(pc = "ret" /\ prog.kind = "Gb" /\ prog.Z = NoneV)
     => /\ pc' = "raised" /\ exc' = "ValueError"
        /\ sel' = NoSelection
        /\ res' = "unset"
        /\ t' = t]_vars

\* C14 witness: gb has raised ValueError on a populated record, called with
\* a method gbids does not know and extras False.
C14_Witness ==
  /\ prog.kind = "Gb" /\ prog.Z = NoneV
  /\ prog.method \notin MethMap /\ ~prog.extras
  /\ Len(calls) = 1 /\ calls[1].ret = "populated"
  /\ pc = "raised" /\ exc = "ValueError"
  /\ sel = NoSelection

\* The running (or last) constructor call has read a header line of kind k.
Consumed(k) == \E i \in LastCall.reads : fs[path][i].k = k

\* It has read a BOX BOUNDS header and the three lines after it.
ConsumedBox ==
  \E i \in LastCall.reads :
    /\ fs[path][i].k = "BOX"
    /\ {i + 1, i + 2, i + 3} \subseteq LastCall.reads
    /\ \A j \in {i + 1, i + 2, i + 3} : fs[path][j].k = "data"

\* No target mismatch: every TIMESTEP value the call has read is the index
\* of the record under construction (the target, or the first value read
\* when no target was given).
NoMismatch ==
  \A i \in LastCall.reads :
    (fs[path][i].k = "TIMESTEP" /\ (i + 1) \in LastCall.reads)
      => fs[path][i + 1].nums[1] = index

\* C15, as the claim states it: a call without filter and without target
\* mismatch that has read the TIMESTEP, NUMBER OF ATOMS and BOX BOUNDS
\* sections of a record returns a populated record with three box rows and
\* three periodic flags.
C15_BoxReachedNotSentinel ==
  (/\ pc = "ret" /\ ~filt.has /\ NoMismatch
   /\ Consumed("TIMESTEP") /\ Consumed("NATOMS") /\ ConsumedBox)
  => /\ ~t.isNone
     /\ Len(t.box) = 3 /\ Len(t.periodic) = 3

\* C15, amended: a call without filter and without target mismatch that has
\* read the TIMESTEP, NUMBER OF ATOMS and BOX BOUNDS sections of a record
\* and its ATOMS header never returns the sentinel; the record it returns
\* has three box rows and three periodic flags.
C15_AtomsReachedNotSentinel ==
  (/\ pc = "ret" /\ ~filt.has /\ NoMismatch
   /\ Consumed("TIMESTEP") /\ Consumed("NATOMS") /\ ConsumedBox
   /\ Consumed("ATOMS"))
  => /\ ~t.isNone
     /\ Len(t.box) = 3 /\ Len(t.periodic) = 3

\* C15 witness: a call that read all four sections of a record whose ATOMS
\* header is the last line of the file has returned a populated record.
C15_Witness ==
  /\ pc = "ret" /\ ~filt.has /\ NoMismatch
  /\ Consumed("TIMESTEP") /\ Consumed("NATOMS") /\ ConsumedBox
  /\ Consumed("ATOMS")
  /\ fs[path][Len(fs[path])].k = "ATOMS"
  /\ ~t.isNone /\ TLen(t) = 0 /\ Len(t.box) = 3

\* C16: when a call of Timestep(path, k), which has _read open the stream
\* itself, has returned, that stream is closed, whether the call built a
\* populated record, reached the end of the file or took the early return
\* on a TIMESTEP value greater than the target.
C16_PrivateStreamClosed ==
  (prog.kind = "Timestep" /\ pc \in {"ret", "done"}) => ~f.open

\* The same for the two return paths that reach line 367.
PrivateStreamClosedAtLoopEnd ==
  (/\ prog.kind = "Timestep" /\ pc \in {"ret", "done"}
   /\ \A i \in LastCall.reads :
        (InFile[i].k = "TIMESTEP" /\ (i + 1) \in LastCall.reads)
          => InFile[i + 1].nums[1] <= prog.index)
  => ~f.open

\* The ATOMS header of record r, its i-th atom line, and the names the
\* header has after id type x y z.
RecAtomsAt(file, r) == CHOOSE j \in RecLinesOf(file, r) : file[j].k = "ATOMS"
RecAtomLine(file, r, i) == file[RecAtomsAt(file, r) + i]
RecHeads(file, r) == XHeadings(file[RecAtomsAt(file, r)].hd)

\* Entry i of the column called name is the id of the atom line (for the
\* seeded name "ids") or the value of one of its extra tokens.
EntryFrom(name, col, i, line) ==
  IF name = "ids" THEN col.a[i] = line.nums[1]
  ELSE \E k \in 1..Len(line.xv) :
         col.a[i] = IF col.dtype = "float" /\ ~line.xv[k].f
                      THEN line.xv[k].v * Micro ELSE line.xv[k].v

AlignedWith(file, r) ==
  LET n == Cardinality(AtomLinesOf(file, r))
  IN /\ Len(t.types) = n /\ Len(t.ids) = n /\ Len(t.xyz) = n
     /\ \A j \in 1..Len(t.extras) :
          LET col == GetAttr(t, t.extras[j])
          IN /\ Len(col.a) = n
             /\ \A i \in 1..n :
                  EntryFrom(t.extras[j], col, i, RecAtomLine(file, r, i))

\* C17: in a populated record, types, ids, positions and every extra column
\* have as many entries as the record has atom lines, and entry i of every
\* extra column was read from atom line i.
C17_ColumnsAligned ==
  (pc = "ret" /\ ~t.isNone)
  => \E r \in 1..NRecs(fs[path]) :
       /\ RecIndex(fs[path], r) = t.index
       /\ RecHas(fs[path], r, "ATOMS")
       /\ AlignedWith(fs[path], r)

\* The same for records whose ATOMS header repeats no name and whose atom
\* lines all carry one token per name.
ColumnsAlignedFullLines ==
  (pc = "ret" /\ ~t.isNone)
  => \E r \in 1..NRecs(fs[path]) :
       /\ RecIndex(fs[path], r) = t.index
       /\ RecHas(fs[path], r, "ATOMS")
       /\ LET hs == RecHeads(fs[path], r)
          IN ((\A a, b \in 1..Len(hs) : hs[a] = hs[b] => a = b)
              /\ \A i \in 1..Cardinality(AtomLinesOf(fs[path], r)) :
                   Len(RecAtomLine(fs[path], r, i).xv) = Len(hs))
             => AlignedWith(fs[path], r)

\* The names of a sequence, each once, in order of first occurrence.
RECURSIVE Distinct(_)
Distinct(xs) ==
  IF xs = <<>> THEN <<>>
  ELSE LET d == Distinct(SubSeq(xs, 1, Len(xs) - 1))
       IN IF InSeq(xs[Len(xs)], d) THEN d ELSE Append(d, xs[Len(xs)])

\* What the writer put into the empty file "out" for the record R = kept.t:
\* its ATOMS header names R.extras after the five fixed ones, and every atom
\* line written carries one token per name of R.extras, in that order, the
\* first being the atom's id again.
WrittenInExtrasOrder ==
  LET out == fs["out"]
      h == RecAtomsAt(out, 1)
  IN /\ RecHas(out, 1, "ATOMS")
     /\ out[h].hd = <<"id", "type", "x", "y", "z">> \o kept.t.extras
     /\ \A i \in 1..(Len(out) - h) :
          /\ Len(out[h + i].xv) = Len(kept.t.extras)
          /\ out[h + i].xv[1] = [f |-> FALSE, v |-> out[h + i].nums[1]]
          /\ \A j \in 1..Len(kept.t.extras) :
               out[h + i].xv[j]
                 = ExtraToken(GetAttr(kept.t, kept.t.extras[j]), i)

\* C18, as the claim states it: a populated record's extras are "ids"
\* followed by the names the ATOMS header has after id type x y z, in the
\* header's order, and Timestep.dump writes header names and per-atom
\* values in the order of that list.
C18_ExtrasAsDeclared ==
  (/\ prog.kind = "RoundTrip" /\ pc \in {"dumped", "raised"}
   /\ kept.has /\ ~kept.t.isNone)
  => /\ \E r \in 1..NRecs(InFile) :
          /\ RecIndex(InFile, r) = kept.t.index
          /\ RecHas(InFile, r, "ATOMS")
          /\ kept.t.extras = <<"ids">> \o RecHeads(InFile, r)
     /\ WrittenInExtrasOrder

\* C18, amended: the extras are "ids" followed by the distinct names the
\* ATOMS header has after id type x y z, in the order of their first
\* occurrence, and Timestep.dump writes header names and per-atom values in
\* the order of that list, the atom id a second time under "ids".
C18_ExtrasDistinctAsDeclared ==
  (/\ prog.kind = "RoundTrip" /\ pc \in {"dumped", "raised"}
   /\ kept.has /\ ~kept.t.isNone)
  => /\ \E r \in 1..NRecs(InFile) :
          /\ RecIndex(InFile, r) = kept.t.index
          /\ RecHas(InFile, r, "ATOMS")
          /\ kept.t.extras = <<"ids">> \o Distinct(RecHeads(InFile, r))
     /\ WrittenInExtrasOrder

\* C18 witness: a record with the extra columns c_csd and q has been written
\* in full, each atom line ending with its id, its c_csd and its q token.
C18_Witness ==
  /\ prog.kind = "RoundTrip" /\ pc = "dumped" /\ kept.has
  /\ kept.t.extras = <<"ids", "c_csd", "q">>
  /\ TLen(kept.t) = 2
  /\ Len(fs["out"]) = RecAtomsAt(fs["out"], 1) + 2
  /\ fs["out"][Len(fs["out"])].xv[1].v = 2

\* C19: two Dumps that compare equal hold the same number of records.
C19_EqualOnlyIfSameLength ==
  (prog.kind = "Eq" /\ pc = "done" /\ res = "true")
  => Len(kept.steps) = Len(steps)

\* The pairs that zip visits decide the answer: Dumps with the same number
\* of records compare equal exactly when all pairs of records, with their
\* keys, are equal.
EqualLengthDumps ==
  (prog.kind = "Eq" /\ pc = "done" /\ Len(kept.steps) = Len(steps))
  => (res = "true"
      <=> \A i \in 1..Len(steps) : ItemEq(kept.steps[i], steps[i]) = "true")

\* C20: when Dump(path) has returned, every call of the parser but the last
\* returned a populated record, left the cursor further than it found it,
\* and had its record added to the collection; the last call returned the
\* sentinel; and the stream is closed.
C20_DumpLoop ==
  (prog.kind = "Dump" /\ ~prog.filt.has /\ pc = "built")
  => /\ \A i \in 1..(Len(calls) - 1) :
          /\ calls[i].ret = "populated"
          /\ calls[i].end > calls[i].start
     /\ LastCall.ret = "sentinel"
     /\ Len(steps) = Len(calls) - 1
     /\ ~f.open

\* What holds of every Dump construction: a call that returned a populated
\* record moved the cursor forward, every call but the last had its record
\* added, and the stream is closed when the constructor has returned or
\* raised.
DumpProgressAndClose ==
  IsDumpProg
  => /\ \A i \in 1..Len(calls) :
          calls[i].ret = "populated" => calls[i].end > calls[i].start
     /\ pc \in {"built", "raised"}
          => /\ ~f.open
             /\ Len(steps) = Len(calls) - 1

\* The loop of the claim on files whose records all have atom lines.
DumpLoopNonEmpty ==
  (/\ prog.kind = "Dump" /\ ~prog.filt.has /\ pc = "built"
   /\ AllNonEmpty(InFile))
  => /\ \A i \in 1..(Len(calls) - 1) :
          /\ calls[i].ret = "populated"
          /\ calls[i].end > calls[i].start
     /\ LastCall.ret = "sentinel"
     /\ Len(steps) = Len(calls) - 1
     /\ ~f.open

\* Every step of a constructor moves on: a pass of the loop of _read takes
\* one more line or ends the loop, and every other step changes the place
\* in the program, so no run goes on for ever over a finite file.
StepsMoveOn ==
  [][\/ pc' # pc
     \/ (pc = "read" /\ f'.pos = f.pos + 1)]_vars

====
